---- MODULE Spec2Model ----
(***************************************************************************)
(* Guest allocation table, guest function adapters (wasm-module1 and       *)
(* wasm-module2) and the host call wrappers (wasm-app) of the              *)
(* rust-wasm-dynamic-module-study repository.                              *)
(*                                                                         *)
(* Spec     : one module instance driven by arbitrary calls of its exports *)
(*            and arbitrary host writes into its registered buffers.       *)
(* HostSpec : the host wrappers of wasm-app/src/main.rs, each running on a *)
(*            freshly instantiated module, one step per guest interaction. *)
(***************************************************************************)
EXTENDS Integers, Sequences, FiniteSets, TLC

VARIABLES
    module,        \* which module the instance was instantiated from (1 or 2)
    heapSlots,     \* allocation granules of the instance's linear memory
    payloads,      \* byte strings the driver of Spec writes into buffers of this instance
    calls,         \* export calls the driver of Spec has made on this instance
    MEMORY_AREAS,  \* thread_local table: handle -> (recorded size, buffer)
    trapped,       \* the instance has trapped (panic / abort inside the guest)
    lastCall,      \* the last export call on the instance and its outcome
    deallocRun,    \* consecutive wasm_deallocate(h) calls made right after the wasm_allocate that returned h
    returned,      \* handles some allocate call of this instance has returned
    everFreed,     \* handles some wasm_deallocate call has released
    stale,         \* released handles that no allocate call has returned again since
    outstanding,   \* handle -> allocate calls returning it minus successful deallocations
    host           \* the host wrapper's locals and position (HostSpec)

guestVars == <<module, heapSlots, MEMORY_AREAS, trapped, lastCall, deallocRun, returned,
               everFreed, stale, outstanding>>
vars == <<module, heapSlots, payloads, calls, MEMORY_AREAS, trapped, lastCall, deallocRun,
          returned, everFreed, stale, outstanding, host>>

---------------------------------------------------------------------------
(* Bounds of the model *)

\* allocation granules of the heap of an instance driven by Spec
HeapSlots == 3
\* allocation granules of the heap of an instance a host wrapper creates
HostHeapSlots == 4
\* export calls the driver of Spec makes on one instance
MaxCalls == 4
\* bytes per allocation granule
SlotSize == 32
\* longest name the host passes to a greeter
MaxLen == 2
\* wasm_allocate(0) calls that may be outstanding on the shared zero-size handle
MaxZeroAllocs == 2
\* size of the name buffers the driver of Spec allocates
MaxSize == 2

---------------------------------------------------------------------------
(* Guest linear memory and the heap behind Box<[u8]> *)

\* the address of an empty Box<[u8]>: no heap block, the aligned dangling pointer
Dangling == 1
\* usize::BITS / 8 on the wasm32 target, u32::BITS / 8 on the host
PtrWidth == 4
\* first heap address (granule 0)
HeapBase == SlotSize

Slots == 0 .. (heapSlots - 1)
\* a heap whose first granule starts at address 0
SlotAddrFromZero(k) == k * SlotSize
SlotAddr(k) == HeapBase + k * SlotSize
HeapAddrs == {SlotAddr(k) : k \in Slots}
\* every value an allocate call of the instance can return
Handles == HeapAddrs \cup {Dangling}
NSlots(n) == (n + SlotSize - 1) \div SlotSize

\* granules covered by the live buffers of the table
Occupied(areas) ==
    {k \in Slots : \E h \in DOMAIN areas :
        /\ Len(areas[h].box) > 0
        /\ SlotAddr(k) >= h
        /\ SlotAddr(k) < h + NSlots(Len(areas[h].box)) * SlotSize}

\* addresses the heap may hand out for a new boxed slice of n bytes
BoxAddrs(areas, n) ==
    IF n = 0 THEN {Dangling}
    ELSE {SlotAddr(k) : k \in {j \in Slots :
             /\ j + NSlots(n) <= heapSlots
             /\ \A i \in j .. (j + NSlots(n) - 1) : i \notin Occupied(areas)}}

\* a buffer left as the heap held it
ZeroesUninitialised(n) == [i \in 1 .. n |-> 170]

Zeroes(n) == [i \in 1 .. n |-> 0]

\* usize::to_le_bytes / u32::from_le_bytes
Pow256(i) == IF i = 0 THEN 1 ELSE IF i = 1 THEN 256 ELSE IF i = 2 THEN 65536 ELSE 16777216
ToLeBytes(x) == [i \in 1 .. PtrWidth |-> (x \div Pow256(i - 1)) % 256]
FromLeBytes(b) == b[1] + 256 * b[2] + 65536 * b[3] + 16777216 * b[4]

---------------------------------------------------------------------------
(* Allocation table: wasm-module1/src/lib.rs, identical in wasm-module2 *)

Success == 0
ErrorMemmoryNotAllocated == -1

\* an insert that records the capacity of the granules taken, not the length
allocate_capacity(areas, ptr, size, box) ==
    [h \in (DOMAIN areas) \cup {ptr} |->
        IF h = ptr THEN [size |-> NSlots(size) * SlotSize, box |-> box] ELSE areas[h]]

\* an insert into a table emptied first
allocate_forgetting(areas, ptr, size, box) ==
    [h \in {ptr} |-> [size |-> size, box |-> box]]

\* allocate(size, alloc_box): HashMap::insert under the box's address
allocate(areas, ptr, size, box) ==
    [h \in (DOMAIN areas) \cup {ptr} |->
        IF h = ptr THEN [size |-> size, box |-> box] ELSE areas[h]]

\* a lookup that ignores its key
validate_pointer_first_entry(areas, ptr) ==
    IF DOMAIN areas = {} THEN 0 ELSE areas[CHOOSE h \in DOMAIN areas : TRUE].size

\* validate_pointer(ptr): the recorded size, 0 when the pointer is not registered
validate_pointer(areas, ptr) ==
    IF ptr \in DOMAIN areas THEN areas[ptr].size ELSE 0

\* a removal that clears the table
RemoveAreaClears(areas, ptr) == [h \in {} |-> areas[h]]

\* a removal that takes the entries at higher addresses along
RemoveAreaAndAbove(areas, ptr) == [h \in {x \in DOMAIN areas : x < ptr} |-> areas[h]]

\* a table from which nothing is removed
RemoveAreaKeeps(areas, ptr) == areas

\* HashMap::remove in wasm_deallocate
RemoveArea(areas, ptr) ==
    [h \in (DOMAIN areas) \ {ptr} |-> areas[h]]

\* a status that ignores the lookup
DeallocateCodeAlwaysSuccess(areas, ptr) == 0

\* status returned by wasm_deallocate
DeallocateCode(areas, ptr) ==
    IF ptr \in DOMAIN areas THEN Success ELSE ErrorMemmoryNotAllocated

\* fn format_hello_world(name): format!("Hello World, {name}!")
HelloPrefix == <<72, 101, 108, 108, 111, 32, 87, 111, 114, 108, 100, 44, 32>>
HelloSuffix == <<33>>
\* a greeting without the closing mark
format_hello_world_unterminated(name) == HelloPrefix \o name
format_hello_world(name) == HelloPrefix \o name \o HelloSuffix

\* bytes CStr::from_ptr covers in a buffer: up to and including the first zero byte,
\* the empty sequence when the buffer holds no zero byte
HasNul(box) == \E i \in 1 .. Len(box) : box[i] = 0
FirstNul(box) == CHOOSE i \in 1 .. Len(box) : box[i] = 0 /\ \A j \in 1 .. (i - 1) : box[j] # 0
to_bytes_with_nul(box) == IF HasNul(box) THEN SubSeq(box, 1, FirstNul(box)) ELSE <<>>
to_bytes(cbytes) == SubSeq(cbytes, 1, Len(cbytes) - 1)

\* CStr::to_str / String::from_utf8: the byte values of the model are ASCII or 255
IsUtf8(bytes) == \A i \in 1 .. Len(bytes) : bytes[i] < 128

AddrRange(ptr, n) == {ptr + i : i \in 0 .. (n - 1)}

---------------------------------------------------------------------------
(* Export calls on one instance *)

Call(op, ptr, len, ptr2, len2, ret, trap, reads) ==
    [op |-> op, ptr |-> ptr, len |-> len, ptr2 |-> ptr2, len2 |-> len2,
     ret |-> ret, trap |-> trap, reads |-> reads]

EmptyAreas == [h \in {} |-> [size |-> 0, box |-> <<>>]]

\* bookkeeping of a call in which allocate returned the handles hs
NoteAllocs(hs) ==
    /\ returned' = returned \cup hs
    /\ stale' = stale \ hs
    /\ outstanding' = [h \in Handles |-> IF h \in hs THEN outstanding[h] + 1 ELSE outstanding[h]]
    /\ UNCHANGED everFreed

NoteNothing == UNCHANGED <<returned, everFreed, stale, outstanding>>

\* an answer that depends on the state of the instance
answer_by_table_size ==
    /\ ~trapped
    /\ module = 1
    /\ lastCall' = Call("answer", 0, 0, 0, 0, 42 + Cardinality(DOMAIN MEMORY_AREAS), FALSE, {})
    /\ deallocRun' = 0
    /\ NoteNothing
    /\ UNCHANGED <<module, heapSlots, MEMORY_AREAS, trapped>>

\* pub extern "C" fn answer() -> i32
answer ==
    /\ ~trapped
    /\ module = 1
    /\ lastCall' = Call("answer", 0, 0, 0, 0, 42, FALSE, {})
    /\ deallocRun' = 0
    /\ NoteNothing
    /\ UNCHANGED <<module, heapSlots, MEMORY_AREAS, trapped>>

\* pub extern "C" fn wasm_allocate(size: u32) -> *const u8
wasm_allocate(size) ==
    /\ ~trapped
    /\ (size = 0) => (outstanding[Dangling] < MaxZeroAllocs)
    /\ IF BoxAddrs(MEMORY_AREAS, size) = {}
       THEN \* the heap is exhausted: handle_alloc_error aborts, the call traps
            /\ trapped' = TRUE
            /\ lastCall' = Call("wasm_allocate", 0, size, 0, 0, 0, TRUE, {})
            /\ NoteNothing
            /\ UNCHANGED MEMORY_AREAS
       ELSE \E p \in BoxAddrs(MEMORY_AREAS, size) :
            /\ MEMORY_AREAS' = allocate(MEMORY_AREAS, p, size, Zeroes(size))
            /\ lastCall' = Call("wasm_allocate", 0, size, 0, 0, p, FALSE, {})
            /\ NoteAllocs({p})
            /\ UNCHANGED trapped
    /\ deallocRun' = 0
    /\ UNCHANGED <<module, heapSlots>>

\* pub extern "C" fn wasm_deallocate(ptr: *const u8) -> i32
wasm_deallocate(ptr) ==
    /\ ~trapped
    /\ MEMORY_AREAS' = RemoveArea(MEMORY_AREAS, ptr)
    /\ lastCall' = Call("wasm_deallocate", ptr, 0, 0, 0, DeallocateCode(MEMORY_AREAS, ptr), FALSE, {})
    /\ deallocRun' =
          IF lastCall.op = "wasm_allocate" /\ ~lastCall.trap /\ lastCall.ret = ptr THEN 1
          ELSE IF lastCall.op = "wasm_deallocate" /\ lastCall.ptr = ptr /\ deallocRun = 1 THEN 2
          ELSE 0
    /\ IF DeallocateCode(MEMORY_AREAS, ptr) = Success
       THEN /\ everFreed' = everFreed \cup {ptr}
            /\ stale' = stale \cup {ptr}
            /\ outstanding' = [outstanding EXCEPT ![ptr] = outstanding[ptr] - 1]
            /\ UNCHANGED returned
       ELSE NoteNothing
    /\ UNCHANGED <<module, heapSlots, trapped>>

\* pub fn validate_pointer(ptr: *const u8) -> usize, called on its own
validate_pointer_call(ptr) ==
    /\ ~trapped
    /\ lastCall' = Call("validate_pointer", ptr, 0, 0, 0, validate_pointer(MEMORY_AREAS, ptr), FALSE, {})
    /\ deallocRun' = 0
    /\ NoteNothing
    /\ UNCHANGED <<module, heapSlots, MEMORY_AREAS, trapped>>

\* an adapter call that ends by dropping the input it was given
AdapterReturnsReleasingInput(call) ==
    /\ lastCall' = call
    /\ deallocRun' = 0
    /\ NoteNothing
    /\ MEMORY_AREAS' = RemoveArea(MEMORY_AREAS, call.ptr)
    /\ UNCHANGED <<module, heapSlots, trapped>>

\* an adapter call that ends without touching the table
AdapterReturns(call) ==
    /\ lastCall' = call
    /\ deallocRun' = 0
    /\ NoteNothing
    /\ UNCHANGED <<module, heapSlots, MEMORY_AREAS, trapped>>

\* an adapter call that panics or aborts: the export traps
AdapterTraps(call, areas, hs) ==
    /\ lastCall' = call
    /\ trapped' = TRUE
    /\ MEMORY_AREAS' = areas
    /\ deallocRun' = 0
    /\ NoteAllocs(hs)
    /\ UNCHANGED <<module, heapSlots>>

\* pub extern "C" fn wasm_memory_c_format_hello_world(name: *const i8) -> *const u8
wasm_memory_c_format_hello_world(name) ==
    /\ ~trapped
    /\ module = 1
    /\ LET expected_size == validate_pointer(MEMORY_AREAS, name)
           op == "wasm_memory_c_format_hello_world"
       IN  IF expected_size = 0
           THEN AdapterReturns(Call(op, name, 0, 0, 0, 0, FALSE, {}))
           ELSE LET box == MEMORY_AREAS[name].box
                    c_str == to_bytes_with_nul(box)
                IN  IF ~HasNul(box)
                    THEN \* CStr::from_ptr runs past the end of the buffer: the scan
                         \* stops at a later zero byte (a longer string) or leaves
                         \* linear memory (trap)
                         \E oob \in BOOLEAN :
                            LET rd == AddrRange(name, Len(box) + 1)
                            IN  IF oob
                                THEN AdapterTraps(Call(op, name, 0, 0, 0, 0, TRUE, rd), MEMORY_AREAS, {})
                                ELSE AdapterReturns(Call(op, name, 0, 0, 0, 0, FALSE, rd))
                    ELSE LET rd == AddrRange(name, Len(c_str))
                         IN  IF Len(c_str) # expected_size
                             THEN AdapterReturns(Call(op, name, 0, 0, 0, 0, FALSE, rd))
                             ELSE IF ~IsUtf8(to_bytes(c_str))
                             THEN \* c_str.to_str().unwrap() panics
                                  AdapterTraps(Call(op, name, 0, 0, 0, 0, TRUE, rd), MEMORY_AREAS, {})
                             ELSE LET result_cstring == format_hello_world(to_bytes(c_str)) \o <<0>>
                                      result_cstring_len == Len(result_cstring)
                                  IN  IF BoxAddrs(MEMORY_AREAS, result_cstring_len) = {}
                                      THEN AdapterTraps(Call(op, name, 0, 0, 0, 0, TRUE, rd), MEMORY_AREAS, {})
                                      ELSE \E p \in BoxAddrs(MEMORY_AREAS, result_cstring_len) :
                                           /\ MEMORY_AREAS' = allocate(MEMORY_AREAS, p, result_cstring_len, result_cstring)
                                           /\ lastCall' = Call(op, name, 0, 0, 0, p, FALSE, rd)
                                           /\ deallocRun' = 0
                                           /\ NoteAllocs({p})
                                           /\ UNCHANGED <<module, heapSlots, trapped>>

\* a test of registration alone
RejectsLengthUnregisteredOnly(expected_size, declared) == expected_size = 0

\* the test of the recorded size against the declared length in patterns (b) and (c)
RejectsLength(expected_size, declared) == (expected_size = 0) \/ (expected_size # declared)

\* std::slice::from_raw_parts(offset, length) copied into a Vec: the buffer's bytes
\* (length never exceeds the buffer while the recorded size is the buffer's length;
\* bytes past it read as zero here)
RawParts(areas, offset, length) ==
    [i \in 1 .. length |-> IF i <= Len(areas[offset].box) THEN areas[offset].box[i] ELSE 0]

\* a record with the two words exchanged
PackMetaLenFirst(ptr, len) == ToLeBytes(len) \o ToLeBytes(ptr)

\* the packed [result_ptr][result_len] record of patterns (b) and (c)
PackMeta(ptr, len) == ToLeBytes(ptr) \o ToLeBytes(len)

\* the tail shared by the pattern (b) and (c) adapters: allocate the result bytes,
\* then the metadata record, and return the record's handle
ReturnPacked(call, result) ==
    LET result_len == Len(result)
    IN  IF BoxAddrs(MEMORY_AREAS, result_len) = {}
        THEN AdapterTraps([call EXCEPT !.trap = TRUE], MEMORY_AREAS, {})
        ELSE \E p \in BoxAddrs(MEMORY_AREAS, result_len) :
             LET areas1 == allocate(MEMORY_AREAS, p, result_len, result)
                 meta == PackMeta(p, result_len)
                 meta_len == Len(meta)
             IN  IF BoxAddrs(areas1, meta_len) = {}
                 THEN AdapterTraps([call EXCEPT !.trap = TRUE], areas1, {p})
                 ELSE \E q \in BoxAddrs(areas1, meta_len) :
                      /\ MEMORY_AREAS' = allocate(areas1, q, meta_len, meta)
                      /\ lastCall' = [call EXCEPT !.ret = q]
                      /\ deallocRun' = 0
                      /\ NoteAllocs({p, q})
                      /\ UNCHANGED <<module, heapSlots, trapped>>

\* pub extern "C" fn wasm_memory_rust_format_hello_world(offset: *mut u32, length: u32) -> u32
wasm_memory_rust_format_hello_world(offset, length) ==
    /\ ~trapped
    /\ module = 1
    /\ LET expected_size_param == validate_pointer(MEMORY_AREAS, offset)
           op == "wasm_memory_rust_format_hello_world"
       IN  IF RejectsLength(expected_size_param, length)
           THEN AdapterReturns(Call(op, offset, length, 0, 0, 0, FALSE, {}))
           ELSE LET input_vec == RawParts(MEMORY_AREAS, offset, length)
                IN  ReturnPacked(Call(op, offset, length, 0, 0, 0, FALSE, AddrRange(offset, length)),
                                 format_hello_world(input_vec))

---------------------------------------------------------------------------
(* Tabular interchange: Arrow IPC streams as the arrow crate reads and writes them *)

FieldNames == <<"command", "config", "id", "content", "title", "date", "score">>
DataTypes == <<"Utf8", "Struct{filename:Utf8}", "UInt64", "Timestamp(Second,+00:00)", "Float64">>
CellValues == <<"test", "test.txt", "1", "this is a test", "this is a test2",
                "2022-01-01T12:00:00Z", "1.123456">>
IndexOf(table, x) == CHOOSE i \in 1 .. Len(table) : table[i] = x

\* first byte of an encapsulated IPC message (continuation marker)
IpcMarker == 255

Fld(name, type) == [name |-> name, type |-> type]
Stream(schema, batches) == [schema |-> schema, batches |-> batches]

RECURSIVE Flatten(_)
Flatten(ss) == IF ss = <<>> THEN <<>> ELSE Head(ss) \o Flatten(Tail(ss))

EncodeField(f) == <<IndexOf(FieldNames, f.name), IndexOf(DataTypes, f.type)>>
EncodeRow(row) == [i \in 1 .. Len(row) |-> IndexOf(CellValues, row[i])]
EncodeBatch(b) == <<Len(b)>> \o Flatten([i \in 1 .. Len(b) |-> EncodeRow(b[i])])

\* StreamWriter::try_new(buffer, &schema), write(&batch)*, into_inner()
Serialize(st) ==
    <<IpcMarker, Len(st.schema)>>
        \o Flatten([i \in 1 .. Len(st.schema) |-> EncodeField(st.schema[i])])
        \o <<Len(st.batches)>>
        \o Flatten([i \in 1 .. Len(st.batches) |-> EncodeBatch(st.batches[i])])

\* create_arrow_example_meta_data(): {command: "test", config: {filename: "test.txt"}}
CommandSchema == <<Fld("command", "Utf8"), Fld("config", "Struct{filename:Utf8}")>>
create_arrow_example_meta_data == Stream(CommandSchema, << << <<"test", "test.txt">> >> >>)

\* create_arrow_example_data()
DataSchema == <<Fld("id", "UInt64"), Fld("content", "Utf8"), Fld("title", "Utf8"),
                Fld("date", "Timestamp(Second,+00:00)"), Fld("score", "Float64")>>
ExampleRow == <<"1", "this is a test", "test", "2022-01-01T12:00:00Z", "1.123456">>
create_arrow_example_data == Stream(DataSchema, << <<ExampleRow>> >>)

\* the answer batch built by wasm_memory_process_data_arrow
ResultSchema == <<Fld("id", "UInt64"), Fld("content", "Utf8")>>
\* a result that repeats the content it was given
result_batch_echo == Stream(ResultSchema, << << <<"1", "this is a test">> >> >>)

result_batch == Stream(ResultSchema, << << <<"1", "this is a test2">> >> >>)

\* command streams a caller can send that differ from the expected one
CommandWrongName == Stream(<<Fld("title", "Utf8"), CommandSchema[2]>>, << << <<"test", "test.txt">> >> >>)
CommandWrongType == Stream(<<Fld("command", "UInt64"), CommandSchema[2]>>, << << <<"1", "test.txt">> >> >>)
CommandWrongValue == Stream(CommandSchema, << << <<"test.txt", "test.txt">> >> >>)
CommandNoRows == Stream(CommandSchema, << <<>> >>)
CommandWrongNameNoBatch == Stream(<<Fld("title", "Utf8"), CommandSchema[2]>>, <<>>)
\* data streams a caller can send that differ from the expected one
DataWrongName == Stream(<<Fld("id", "UInt64"), Fld("title", "Utf8"), DataSchema[3], DataSchema[4], DataSchema[5]>>,
                        << <<ExampleRow>> >>)
DataWrongValue == Stream(DataSchema, << << <<"1", "test", "test", "2022-01-01T12:00:00Z", "1.123456">> >> >>)

CommandStreams == {create_arrow_example_meta_data, CommandWrongName, CommandWrongType,
                   CommandWrongValue, CommandNoRows, CommandWrongNameNoBatch}
DataStreams == {create_arrow_example_data, DataWrongName, DataWrongValue}
Streams == CommandStreams \cup DataStreams \cup {result_batch}

\* StreamReader::try_new(bytes, None) and the batches it yields
Encoded == [st \in Streams |-> Serialize(st)]
IsStream(bytes) == \E st \in Streams : Encoded[st] = bytes
Deserialize(bytes) == CHOOSE st \in Streams : Encoded[st] = bytes

\* the assert_eq! checks on one record batch of the command stream
MetaDataBatchOk(schema, batch) ==
    /\ Len(schema) >= 2
    /\ schema[1].name = "command"
    /\ schema[1].type = "Utf8"
    /\ schema[2].name = "config"
    /\ schema[2].type = "Struct{filename:Utf8}"
    /\ Len(batch) = 1
    /\ batch[1][1] = "test"
    /\ batch[1][2] = "test.txt"

\* the assert_eq! checks on one record batch of the data stream
DataBatchOk(schema, batch) ==
    /\ Len(schema) >= 5
    /\ schema[1].name = "id"
    /\ schema[1].type = "UInt64"
    /\ schema[2].name = "content"
    /\ schema[2].type = "Utf8"
    /\ schema[3].name = "title"
    /\ schema[3].type = "Utf8"
    /\ schema[4].name = "date"
    /\ schema[4].type = "Timestamp(Second,+00:00)"
    /\ schema[5].name = "score"
    /\ schema[5].type = "Float64"
    /\ Len(batch) = 1
    /\ batch[1][1] = "1"
    /\ batch[1][2] = "this is a test"
    /\ batch[1][3] = "test"
    /\ batch[1][4] = "2022-01-01T12:00:00Z"
    /\ batch[1][5] = "1.123456"

\* the two "for item in stream_reader" loops: every batch the reader yields is checked
MetaDataPasses(bytes) ==
    /\ IsStream(bytes)
    /\ LET st == Deserialize(bytes)
       IN  \A i \in 1 .. Len(st.batches) : MetaDataBatchOk(st.schema, st.batches[i])
DataPasses(bytes) ==
    /\ IsStream(bytes)
    /\ LET st == Deserialize(bytes)
       IN  \A i \in 1 .. Len(st.batches) : DataBatchOk(st.schema, st.batches[i])

\* pub extern "C" fn wasm_memory_process_data_arrow(meta_data_offset, meta_data_size,
\*                                                  data_offset, data_size) -> u32
wasm_memory_process_data_arrow(meta_data_offset, meta_data_size, data_offset, data_size) ==
    /\ ~trapped
    /\ module = 2
    /\ LET expected_size_meta_data == validate_pointer(MEMORY_AREAS, meta_data_offset)
           expected_size_data == validate_pointer(MEMORY_AREAS, data_offset)
           op == "wasm_memory_process_data_arrow"
           rejected == Call(op, meta_data_offset, meta_data_size, data_offset, data_size, 0, FALSE, {})
       IN  IF RejectsLength(expected_size_meta_data, meta_data_size)
           THEN AdapterReturns(rejected)
           ELSE IF RejectsLength(expected_size_data, data_size)
           THEN AdapterReturns(rejected)
           ELSE LET input_vec_meta_data == RawParts(MEMORY_AREAS, meta_data_offset, meta_data_size)
                    input_vec_data == RawParts(MEMORY_AREAS, data_offset, data_size)
                    rd == AddrRange(meta_data_offset, meta_data_size) \cup AddrRange(data_offset, data_size)
                    call == [rejected EXCEPT !.reads = rd]
                IN  IF ~MetaDataPasses(input_vec_meta_data) \/ ~DataPasses(input_vec_data)
                    THEN \* unwrap() or assert_eq! panics
                         AdapterTraps([call EXCEPT !.trap = TRUE], MEMORY_AREAS, {})
                    ELSE ReturnPacked(call, Encoded[result_batch])

---------------------------------------------------------------------------
(* Host access to guest linear memory: Memory::write / Memory::read of wasmtime *)

\* memory.write(&mut store, offset, bytes): the bytes land in whatever buffers cover them
MemWrite(areas, offset, bytes) ==
    [h \in DOMAIN areas |->
        [size |-> areas[h].size,
         box |-> [i \in 1 .. Len(areas[h].box) |->
                    IF (h + i - 1 >= offset) /\ (h + i - 1 < offset + Len(bytes))
                    THEN bytes[h + i - offset]
                    ELSE areas[h].box[i]]]]

\* the buffer covering an address, if any
Covering(areas, addr) ==
    {h \in DOMAIN areas : addr >= h /\ addr < h + Len(areas[h].box)}
Covered(areas, addr, n) == \A a \in AddrRange(addr, n) : Covering(areas, a) # {}
\* memory.read(&store, offset, &mut buffer) of n bytes that lie inside registered buffers
MemRead(areas, offset, n) ==
    [i \in 1 .. n |->
        LET h == CHOOSE h \in Covering(areas, offset + i - 1) : TRUE
        IN  areas[h].box[offset + i - h]]

\* a write of the driver into a registered buffer, over its whole length
memory_write(offset, bytes) ==
    /\ ~trapped
    /\ offset \in DOMAIN MEMORY_AREAS
    /\ Len(bytes) = Len(MEMORY_AREAS[offset].box)
    /\ MEMORY_AREAS' = MemWrite(MEMORY_AREAS, offset, bytes)
    /\ lastCall' = Call("memory.write", offset, Len(bytes), 0, 0, 0, FALSE, {})
    /\ deallocRun' = 0
    /\ NoteNothing
    /\ UNCHANGED <<module, heapSlots, trapped>>

---------------------------------------------------------------------------
(* Spec: one instance under an arbitrary driver *)

\* byte strings of length 0 .. n over the byte set bs
Strings(bs, n) == UNION {[1 .. k -> bs] : k \in 0 .. n}

\* what the driver writes into a name buffer of module 1: a nul-terminated name,
\* a name without terminator and a nul-terminated byte string that is not UTF-8,
\* each filling the buffer
CName == [i \in 1 .. MaxSize |-> IF i = MaxSize THEN 0 ELSE 65]
RawName == [i \in 1 .. MaxSize |-> 65]
NotUtf8Name == [i \in 1 .. MaxSize |-> IF i = MaxSize THEN 0 ELSE 200]
\* what the driver sends to module 2: the expected streams, or one of the two replaced
StreamPairs ==
    {<<c, create_arrow_example_data>> : c \in CommandStreams}
        \cup {<<create_arrow_example_meta_data, d>> : d \in DataStreams}

\* values the driver passes
PtrArgs == Handles \cup {0}
\* (zero-size buffers are requested from module 1 only: the allocator is the same code)
SizeArgs == (IF module = 1 THEN {0} ELSE {}) \cup {Len(b) : b \in payloads}
LenArgs(ptr) == {validate_pointer(MEMORY_AREAS, ptr), validate_pointer(MEMORY_AREAS, ptr) + 1}

NoCall == Call("none", 0, 0, 0, 0, 0, FALSE, {})

\* locals of a host wrapper; pc is the statement the wrapper is at
HostIdle ==
    [pattern |-> "none", pc |-> "Idle", name |-> <<>>,
     offset |-> 0, offset_data |-> 0, result_offset |-> 0, result_offset_position |-> 0,
     buffer |-> <<>>, ptr_buffer |-> <<>>, len_buffer |-> <<>>,
     result_ptr |-> 0, result_len |-> 0, result_bytes |-> <<>>,
     codes |-> <<>>, result |-> <<>>, err |-> "none"]

InitInstance ==
    /\ MEMORY_AREAS = EmptyAreas
    /\ trapped = FALSE
    /\ lastCall = NoCall
    /\ deallocRun = 0
    /\ returned = {}
    /\ everFreed = {}
    /\ stale = {}
    /\ outstanding = [h \in Handles |-> 0]

Init ==
    /\ module \in {1, 2}
    /\ heapSlots = HeapSlots
    /\ payloads \in IF module = 1 THEN {{CName, RawName, NotUtf8Name}}
                    ELSE {{Encoded[pr[1]], Encoded[pr[2]]} : pr \in StreamPairs}
    /\ calls = 0
    /\ InitInstance
    /\ host = HostIdle

\* one more export call of the driver
Driven == calls < MaxCalls /\ calls' = calls + 1 /\ UNCHANGED <<payloads, host>>

DriverAnswer == answer /\ Driven
DriverAllocate == \E size \in SizeArgs : wasm_allocate(size) /\ Driven
DriverDeallocate == \E ptr \in PtrArgs : wasm_deallocate(ptr) /\ Driven
DriverValidate == \E ptr \in PtrArgs : validate_pointer_call(ptr) /\ Driven
DriverWrite ==
    \E ptr \in PtrArgs, bytes \in payloads :
        memory_write(ptr, bytes) /\ UNCHANGED <<payloads, calls, host>>
DriverCFormat == \E ptr \in PtrArgs : wasm_memory_c_format_hello_world(ptr) /\ Driven
DriverRustFormat ==
    \E ptr \in PtrArgs : \E len \in LenArgs(ptr) :
        wasm_memory_rust_format_hello_world(ptr, len) /\ Driven
\* pattern (c) is called on registered buffers or on the null handle, with at most one
\* of the two declared lengths wrong
DriverProcessArrow ==
    \E p1 \in (DOMAIN MEMORY_AREAS) \cup {0}, p2 \in (DOMAIN MEMORY_AREAS) \cup {0} :
        \E l1 \in LenArgs(p1), l2 \in LenArgs(p2) :
            /\ (l1 = validate_pointer(MEMORY_AREAS, p1)) \/ (l2 = validate_pointer(MEMORY_AREAS, p2))
            /\ wasm_memory_process_data_arrow(p1, l1, p2, l2)
            /\ Driven

Next ==
    \/ DriverAnswer
    \/ DriverAllocate
    \/ DriverDeallocate
    \/ DriverValidate
    \/ DriverWrite
    \/ DriverCFormat
    \/ DriverRustFormat
    \/ DriverProcessArrow

Spec == Init /\ [][Next]_vars

---------------------------------------------------------------------------
(* HostSpec: the wrappers of wasm-app/src/main.rs *)

\* names main() could pass to the greeters
HostNames == Strings({0, 65, 66}, MaxLen)

\* contents of guest memory no registered buffer covers
UnknownBytes == {0, 170}

\* Store::new, linker.instantiate: every wrapper call runs on a new instance
FreshInstance(m) ==
    /\ module' = m
    /\ MEMORY_AREAS' = EmptyAreas
    /\ trapped' = FALSE
    /\ lastCall' = NoCall
    /\ deallocRun' = 0
    /\ returned' = {}
    /\ everFreed' = {}
    /\ stale' = {}
    /\ outstanding' = [h \in Handles |-> 0]
    /\ UNCHANGED <<heapSlots, payloads, calls>>

HostInit ==
    /\ module = 1
    /\ heapSlots = HostHeapSlots
    /\ payloads = {}
    /\ calls = 0
    /\ InitInstance
    /\ host = HostIdle

HostKeeps == UNCHANGED <<payloads, calls>>
Fail(h, why) == [h EXCEPT !.pc = "Failed", !.err = why]

\* main() calls a wrapper: the bytes of the input, then the instantiation
HostStart ==
    /\ host.pc \in {"Idle", "Done"}
    /\ \E pattern \in {"answer", "a", "b", "c"} : \E name \in HostNames :
          /\ (pattern \in {"answer", "c"}) => (name = <<>>)
          /\ FreshInstance(IF pattern = "c" THEN 2 ELSE 1)
          /\ host' = IF pattern = "a" /\ HasNul(name)
                     THEN \* CString::new(param_name_str).unwrap() panics
                          Fail([HostIdle EXCEPT !.pattern = pattern, !.name = name], "panic")
                     ELSE [HostIdle EXCEPT !.pattern = pattern, !.name = name,
                              !.pc = IF pattern = "answer" THEN "call" ELSE "allocate"]

\* inputs of which the string of pattern (b) carries a terminator as well
InputBytesTerminated(h) ==
    IF h.pattern \in {"a", "b"} THEN h.name \o <<0>>
    ELSE Encoded[create_arrow_example_meta_data]

\* the bytes a wrapper writes for its (first) input
InputBytes(h) ==
    IF h.pattern = "a" THEN h.name \o <<0>>
    ELSE IF h.pattern = "b" THEN h.name
    ELSE Encoded[create_arrow_example_meta_data]

\* wrapper_answer: func_validated.call(&mut store, ())
HostAnswer ==
    /\ host.pattern = "answer" /\ host.pc = "call"
    /\ answer
    /\ host' = [host EXCEPT !.pc = "Done", !.result = <<lastCall'.ret>>]
    /\ HostKeeps

\* wrapper_wasm_allocate(instance, &mut store, len).unwrap() for the first input
HostAllocate ==
    /\ host.pc = "allocate"
    /\ wasm_allocate(Len(InputBytes(host)))
    /\ host' = IF lastCall'.trap THEN Fail(host, "trap")
               ELSE [host EXCEPT !.pc = "write", !.offset = lastCall'.ret]
    /\ HostKeeps

\* memory.write(&mut store, offset, bytes).unwrap() for the first input
HostWrite ==
    /\ host.pc = "write"
    /\ MEMORY_AREAS' = MemWrite(MEMORY_AREAS, host.offset, InputBytes(host))
    /\ lastCall' = Call("memory.write", host.offset, Len(InputBytes(host)), 0, 0, 0, FALSE, {})
    /\ deallocRun' = 0
    /\ NoteNothing
    /\ host' = [host EXCEPT !.pc = IF host.pattern = "c" THEN "allocate_data" ELSE "call"]
    /\ UNCHANGED <<module, heapSlots, trapped>>
    /\ HostKeeps

\* pattern (c): allocate and write the data stream
HostAllocateData ==
    /\ host.pc = "allocate_data"
    /\ wasm_allocate(Len(Encoded[create_arrow_example_data]))
    /\ host' = IF lastCall'.trap THEN Fail(host, "trap")
               ELSE [host EXCEPT !.pc = "write_data", !.offset_data = lastCall'.ret]
    /\ HostKeeps

HostWriteData ==
    /\ host.pc = "write_data"
    /\ MEMORY_AREAS' = MemWrite(MEMORY_AREAS, host.offset_data, Encoded[create_arrow_example_data])
    /\ lastCall' = Call("memory.write", host.offset_data, Len(Encoded[create_arrow_example_data]), 0, 0, 0, FALSE, {})
    /\ deallocRun' = 0
    /\ NoteNothing
    /\ host' = [host EXCEPT !.pc = "call"]
    /\ UNCHANGED <<module, heapSlots, trapped>>
    /\ HostKeeps

\* a wrapper that hands a zero result on as an empty value
AfterCallEmptyValue(h, call) ==
    IF call.trap THEN Fail(h, "trap")
    ELSE IF call.ret = 0 THEN [h EXCEPT !.pc = "Done"]
    ELSE [h EXCEPT !.result_offset = call.ret, !.result_offset_position = call.ret,
                   !.buffer = <<1>>,
                   !.pc = IF h.pattern = "a" THEN "scan" ELSE "read_ptr"]

\* a wrapper that releases the buffers without reading the result
AfterCallSkipsDecoding(h, call) ==
    IF call.trap THEN Fail(h, "trap")
    ELSE IF call.ret = 0 THEN Fail(h, "no result")
    ELSE [h EXCEPT !.result_offset = call.ret, !.result_offset_position = call.ret,
                   !.buffer = <<1>>, !.pc = "deallocate_param"]

\* what every wrapper does with the value the adapter returned
AfterCall(h, call) ==
    IF call.trap THEN Fail(h, "trap")
    ELSE IF call.ret = 0 THEN Fail(h, "no result")
    ELSE [h EXCEPT !.result_offset = call.ret, !.result_offset_position = call.ret,
                   !.buffer = <<1>>,
                   !.pc = IF h.pattern = "a" THEN "scan" ELSE "read_ptr"]

\* func_validated.call(&mut store, ...)? and the test of result_offset
HostCall ==
    /\ host.pc = "call" /\ host.pattern \in {"a", "b", "c"}
    /\ IF host.pattern = "a" THEN wasm_memory_c_format_hello_world(host.offset)
       ELSE IF host.pattern = "b"
       THEN wasm_memory_rust_format_hello_world(host.offset, Len(host.name))
       ELSE wasm_memory_process_data_arrow(host.offset, Len(Encoded[create_arrow_example_meta_data]),
                                           host.offset_data, Len(Encoded[create_arrow_example_data]))
    /\ host' = AfterCall(host, lastCall')
    /\ HostKeeps

\* a host read leaves the instance as it is
HostReads == UNCHANGED <<module, heapSlots, MEMORY_AREAS, trapped, lastCall, deallocRun,
                         returned, everFreed, stale, outstanding, payloads, calls>>

\* a read of one byte more than asked for
ReadResultsOneMore(offset, n) ==
    IF Covered(MEMORY_AREAS, offset, n + 1) THEN {MemRead(MEMORY_AREAS, offset, n + 1)}
    ELSE [1 .. (n + 1) -> UnknownBytes]

\* bytes memory.read can deliver for n bytes at offset
ReadResults(offset, n) ==
    IF Covered(MEMORY_AREAS, offset, n) THEN {MemRead(MEMORY_AREAS, offset, n)}
    ELSE [1 .. n -> UnknownBytes]

\* a loop turn that neither advances nor leaves the loop
ScanStepStuck(h, bytes) == [h EXCEPT !.buffer = bytes, !.pc = "scan"]

\* the body of "while buffer[0] != 0u8": push the byte read, advance, test it
ScanStep(h, bytes) ==
    [h EXCEPT !.buffer = bytes,
              !.result_bytes = h.result_bytes \o bytes,
              !.result_offset_position = h.result_offset_position + 1,
              !.pc = IF bytes[1] = 0 THEN "deallocate_param" ELSE "scan"]

\* pattern (a): one turn of the scan loop, reading one byte
HostScan ==
    /\ host.pc = "scan"
    /\ \E bytes \in ReadResults(host.result_offset_position, 1) :
          host' = ScanStep(host, bytes)
    /\ HostReads

\* patterns (b), (c): the two metadata words
HostReadPtr ==
    /\ host.pc = "read_ptr"
    /\ \E bytes \in ReadResults(host.result_offset_position, PtrWidth) :
          host' = [host EXCEPT !.ptr_buffer = bytes,
                               !.result_offset_position = host.result_offset_position + PtrWidth,
                               !.pc = "read_len"]
    /\ HostReads

HostReadLen ==
    /\ host.pc = "read_len"
    /\ \E bytes \in ReadResults(host.result_offset_position, PtrWidth) :
          host' = [host EXCEPT !.len_buffer = bytes,
                               !.result_ptr = FromLeBytes(host.ptr_buffer),
                               !.result_len = FromLeBytes(bytes),
                               !.pc = "read_data"]
    /\ HostReads

\* patterns (b), (c): result_len bytes at result_ptr
HostReadData ==
    /\ host.pc = "read_data"
    /\ \E bytes \in ReadResults(host.result_ptr, host.result_len) :
          host' = [host EXCEPT !.result_bytes = bytes, !.pc = "deallocate_param"]
    /\ HostReads

\* deallocation statements that pass the read position instead of the result handle
DeallocPtrReadPosition(h) ==
    CASE h.pc = "deallocate_param" -> h.offset
      [] h.pc = "deallocate_data" -> h.offset_data
      [] h.pc = "deallocate_return_meta" -> h.result_offset_position
      [] h.pc = "deallocate_return" -> IF h.pattern = "a" THEN h.result_offset_position ELSE h.result_ptr

\* deallocation statements of which the last repeats the input handle
DeallocPtrParamTwice(h) ==
    CASE h.pc = "deallocate_param" -> h.offset
      [] h.pc = "deallocate_data" -> h.offset_data
      [] h.pc = "deallocate_return_meta" -> h.result_offset
      [] h.pc = "deallocate_return" -> h.offset

\* deallocation statements of which the last repeats the metadata handle
DeallocPtrMetaTwice(h) ==
    CASE h.pc = "deallocate_param" -> h.offset
      [] h.pc = "deallocate_data" -> h.offset_data
      [] h.pc = "deallocate_return_meta" -> h.result_offset
      [] h.pc = "deallocate_return" -> h.result_offset

\* the handle each deallocation statement passes and the statement that follows
DeallocPtr(h) ==
    CASE h.pc = "deallocate_param" -> h.offset
      [] h.pc = "deallocate_data" -> h.offset_data
      [] h.pc = "deallocate_return_meta" -> h.result_offset
      [] h.pc = "deallocate_return" -> IF h.pattern = "a" THEN h.result_offset ELSE h.result_ptr
AfterDealloc(h) ==
    CASE h.pc = "deallocate_param" ->
            IF h.pattern = "a" THEN "deallocate_return"
            ELSE IF h.pattern = "b" THEN "deallocate_return_meta" ELSE "deallocate_data"
      [] h.pc = "deallocate_data" -> "deallocate_return_meta"
      [] h.pc = "deallocate_return_meta" -> "deallocate_return"
      [] h.pc = "deallocate_return" -> "convert"

\* a wrapper that gives up on a non-zero code
ReleasedOrAborts(h, ptr, code) ==
    IF code # 0 THEN Fail(h, "cleanup")
    ELSE [h EXCEPT !.codes = Append(h.codes, [ptr |-> ptr, code |-> code]),
                   !.pc = AfterDealloc(h)]

\* if dealloc_code != 0 { println!(..) }: the code is reported, the wrapper goes on
Released(h, ptr, code) ==
    [h EXCEPT !.codes = Append(h.codes, [ptr |-> ptr, code |-> code]),
              !.pc = AfterDealloc(h)]

ReleasingPcs == {"deallocate_param", "deallocate_data", "deallocate_return_meta", "deallocate_return"}

\* wrapper_wasm_deallocate(instance, &mut store, ptr).unwrap(); a non-zero code is printed
HostDeallocate ==
    /\ host.pc \in ReleasingPcs
    /\ wasm_deallocate(DeallocPtr(host))
    /\ host' = Released(host, DeallocPtr(host), lastCall'.ret)
    /\ HostKeeps

\* the conversion of the bytes read into the value the wrapper returns
Converted(h) ==
    IF h.pattern = "a" THEN to_bytes(to_bytes_with_nul(h.result_bytes))
    ELSE h.result_bytes

\* CStr::from_ptr(..).to_str(), String::from_utf8_lossy, StreamReader::try_new(..).unwrap()
HostConvert ==
    /\ host.pc = "convert"
    /\ host' = IF host.pattern = "c" /\ ~IsStream(host.result_bytes)
               THEN Fail(host, "panic")
               ELSE [host EXCEPT !.pc = "Done", !.result = Converted(host)]
    /\ HostReads

HostNext ==
    \/ HostStart
    \/ HostAnswer
    \/ HostAllocate
    \/ HostWrite
    \/ HostAllocateData
    \/ HostWriteData
    \/ HostCall
    \/ HostScan
    \/ HostReadPtr
    \/ HostReadLen
    \/ HostReadData
    \/ HostDeallocate
    \/ HostConvert

HostSpec == HostInit /\ [][HostNext]_vars

\* the wrappers are straight-line code on one thread: a statement that can run, runs
HostSpecFair == HostInit /\ [][HostNext]_vars /\ WF_vars(HostNext)

---------------------------------------------------------------------------
(* UnhealthySpec: the wrappers on a guest whose table can lose an entry while
   the wrapper releases its buffers, so that a deallocation reports -1 *)

GuestLosesEntry ==
    /\ host.pc \in ReleasingPcs
    /\ \E h \in DOMAIN MEMORY_AREAS : MEMORY_AREAS' = RemoveArea(MEMORY_AREAS, h)
    /\ UNCHANGED <<module, heapSlots, payloads, calls, trapped, lastCall, deallocRun,
                   returned, everFreed, stale, outstanding, host>>

UnhealthyNext ==
    \/ HostNext
    \/ GuestLosesEntry

UnhealthySpec == HostInit /\ [][UnhealthyNext]_vars

---------------------------------------------------------------------------
(* Properties of the allocation table (Spec) *)

IsDeallocate == lastCall.op = "wasm_deallocate"

\* C1: for every size n, the wasm_deallocate(h) that directly follows
\* h = wasm_allocate(n) returns 0, and a second wasm_deallocate(h) directly
\* after it returns -1: exactly one of the two calls succeeds.
C1_DeallocateSucceedsOnce ==
    /\ (IsDeallocate /\ deallocRun = 1) => (lastCall.ret = 0)
    /\ (IsDeallocate /\ deallocRun = 2) => (lastCall.ret = -1)

\* the second deallocation of a zero-size allocation has just returned
C1_SecondDeallocateSeen ==
    IsDeallocate /\ deallocRun = 2 /\ lastCall.ptr = Dangling /\ lastCall.ret = -1

\* C2 as stated: a wasm_deallocate call on a handle value that an earlier
\* wasm_deallocate call removed returns -1, whatever was called in between.
C2_FreedHandleNeverFreedAgain ==
    [][(lastCall'.op = "wasm_deallocate" /\ lastCall'.ptr \in everFreed)
          => (lastCall'.ret = -1)]_vars

\* C2, amended: a wasm_deallocate call on a handle value that an earlier
\* wasm_deallocate call removed returns -1 as long as no allocate call has
\* returned that handle value again since the removal.
C2_StaleHandleNeverFreedAgain ==
    [][(lastCall'.op = "wasm_deallocate" /\ lastCall'.ptr \in stale)
          => (lastCall'.ret = -1)]_vars

\* a heap handle removed earlier is refused after other handles were returned
\* and the refused call does not directly follow the removal
C2_StaleHandleRefused ==
    /\ IsDeallocate /\ deallocRun = 0 /\ lastCall.ret = -1
    /\ lastCall.ptr \in stale /\ lastCall.ptr # Dangling
    /\ returned \ {lastCall.ptr} # {}

\* C3: every handle for which an allocate call is not yet matched by a
\* successful wasm_deallocate is registered, with the size of its buffer; so
\* one wasm_deallocate can still succeed for each allocate call (size 0 included).
C3_OutstandingHandlesRegistered ==
    \A h \in Handles :
        /\ (outstanding[h] > 0) => (h \in DOMAIN MEMORY_AREAS)
        /\ (h \in DOMAIN MEMORY_AREAS) =>
              (outstanding[h] = 1 /\ MEMORY_AREAS[h].size = Len(MEMORY_AREAS[h].box))

\* C4: validate_pointer(h) returns 0 for every handle h no allocate call of the
\* instance has returned, after any sequence of calls, and the call leaves
\* MEMORY_AREAS as it was.
C4_ValidateUnknownHandle ==
    /\ []((lastCall.op = "validate_pointer" /\ lastCall.ptr \notin returned) => (lastCall.ret = 0))
    /\ [][(lastCall'.op = "validate_pointer") => (MEMORY_AREAS' = MEMORY_AREAS)]_vars

\* a handle never returned is validated while a buffer of non-zero size is
\* registered and another one has been removed
C4_UnknownHandleValidated ==
    /\ lastCall.op = "validate_pointer" /\ lastCall.ptr \notin returned
    /\ \E h \in DOMAIN MEMORY_AREAS : MEMORY_AREAS[h].size > 0
    /\ everFreed # {}

\* the size the table records for a handle before an adapter call
RecordedSize(ptr) == IF ptr \in DOMAIN MEMORY_AREAS THEN MEMORY_AREAS[ptr].size ELSE 0
Mismatch(ptr, len) == ptr \notin DOMAIN MEMORY_AREAS \/ RecordedSize(ptr) # len
Rejected(call) == call.ret = 0 /\ ~call.trap /\ call.reads = {}

\* C7: wasm_memory_rust_format_hello_world and wasm_memory_process_data_arrow
\* return 0 and read no byte when a declared length differs from the recorded
\* size of its handle or the handle is unregistered; for pattern (c), when
\* either of the two pairs does.
C7_LengthMismatchRejected ==
    [][/\ (lastCall'.op = "wasm_memory_rust_format_hello_world"
              /\ Mismatch(lastCall'.ptr, lastCall'.len))
          => (Rejected(lastCall') /\ MEMORY_AREAS' = MEMORY_AREAS)
       /\ (lastCall'.op = "wasm_memory_process_data_arrow"
              /\ (Mismatch(lastCall'.ptr, lastCall'.len) \/ Mismatch(lastCall'.ptr2, lastCall'.len2)))
          => (Rejected(lastCall') /\ MEMORY_AREAS' = MEMORY_AREAS)]_vars

\* pattern (c) was called on two registered buffers, the first length right and
\* the second one wrong
C7_SecondPairMismatched ==
    /\ lastCall.op = "wasm_memory_process_data_arrow" /\ lastCall.ret = 0 /\ ~lastCall.trap
    /\ lastCall.ptr \in DOMAIN MEMORY_AREAS /\ lastCall.ptr2 \in DOMAIN MEMORY_AREAS
    /\ lastCall.len = RecordedSize(lastCall.ptr)
    /\ lastCall.len2 # RecordedSize(lastCall.ptr2)

\* streams that differ from the expected ones in a field name, a field type,
\* the row count or a value
WrongCommands == {Encoded[st] : st \in CommandStreams \ {create_arrow_example_meta_data}}
WrongData == {Encoded[st] : st \in DataStreams \ {create_arrow_example_data}}

\* C10: wasm_memory_process_data_arrow, given a command or data stream with a
\* wrong field name, field type, row count or value, returns 0 without
\* trapping and registers no result buffer.
C10_WrongBatchReturnsSentinel ==
    (/\ lastCall.op = "wasm_memory_process_data_arrow"
     /\ lastCall.reads # {}
     /\ \/ MEMORY_AREAS[lastCall.ptr].box \in WrongCommands
        \/ MEMORY_AREAS[lastCall.ptr2].box \in WrongData)
    => (lastCall.ret = 0 /\ ~lastCall.trap /\ ~trapped)

---------------------------------------------------------------------------
(* Properties of the host wrappers (HostSpec) *)

\* the guest buffers of one wrapper call
SessionBuffers(h) ==
    {h.offset, h.result_offset}
        \cup (IF h.pattern \in {"b", "c"} THEN {h.result_ptr} ELSE {})
        \cup (IF h.pattern = "c" THEN {h.offset_data} ELSE {})

\* C5: when a wrapper of pattern (a), (b) or (c) succeeds, it has called
\* wasm_deallocate exactly once for each buffer of the call, every one of these
\* calls has returned 0, and MEMORY_AREAS is empty.
C5_SuccessReleasesEveryBuffer ==
    (host.pc = "Done" /\ host.pattern \in {"a", "b", "c"}) =>
        /\ {host.codes[i].ptr : i \in 1 .. Len(host.codes)} = SessionBuffers(host)
        /\ Len(host.codes) = Cardinality(SessionBuffers(host))
        /\ \A i \in 1 .. Len(host.codes) : host.codes[i].code = 0
        /\ MEMORY_AREAS = EmptyAreas

\* the tabular wrapper has succeeded and released its four buffers
C5_TabularCallDone ==
    host.pc = "Done" /\ host.pattern = "c" /\ Len(host.codes) = 4

\* C6: when a wrapper call has failed, none of the buffers allocated for the
\* call is registered any more.
C6_FailureReleasesEveryBuffer ==
    (host.pc = "Failed") => (MEMORY_AREAS = EmptyAreas)

\* "Hello World, {s}!" as bytes
Greeting(s) == <<72, 101, 108, 108, 111, 32, 87, 111, 114, 108, 100, 44, 32>> \o s \o <<33>>

\* C8: for every string s, of length 0 included, the wrapper of pattern (b)
\* does not fail and returns "Hello World, {s}!".
C8_RustFormatRoundTrip ==
    (host.pattern = "b") =>
        /\ host.pc # "Failed"
        /\ (host.pc = "Done") => (host.result = Greeting(host.name))

\* C9: for every string s without a zero byte, the empty string included, the
\* wrapper of pattern (a) does not fail and returns "Hello World, {s}!".
C9_CFormatRoundTrip ==
    (host.pattern = "a" /\ ~HasNul(host.name)) =>
        /\ host.pc # "Failed"
        /\ (host.pc = "Done") => (host.result = Greeting(host.name))

\* the C-string wrapper has returned for the empty name
C9_EmptyNameGreeted ==
    host.pattern = "a" /\ host.pc = "Done" /\ host.name = <<>> /\ Len(host.result) = 14

\* C11: in every wrapper, when the adapter returns 0 the call ends Failed with
\* the error "no result", and no step of the call follows: the host reads and
\* writes no guest memory for it any more.
C11_ZeroResultFailsCall ==
    /\ [][(host.pc = "call" /\ host.pattern \in {"a", "b", "c"}
              /\ lastCall'.ret = 0 /\ ~lastCall'.trap)
            => (host'.pc = "Failed" /\ host'.err = "no result" /\ host'.result = <<>>)]_vars
    /\ [][host.pc # "Failed"]_vars

\* a wrapper has failed on a zero result of the adapter
C11_NoResultSeen ==
    /\ host.pc = "Failed" /\ host.err = "no result"
    /\ lastCall.op = "wasm_memory_rust_format_hello_world" /\ lastCall.ret = 0

\* the step of the call a wrapper statement belongs to
Phase(pc) ==
    CASE pc = "Idle" -> 0
      [] pc \in {"allocate", "write", "allocate_data", "write_data"} -> 1
      [] pc = "call" -> 2
      [] pc \in {"scan", "read_ptr", "read_len", "read_data"} -> 3
      [] pc \in {"deallocate_param", "deallocate_data", "deallocate_return_meta",
                 "deallocate_return", "convert"} -> 4
      [] pc = "Done" -> 5
      [] pc = "Failed" -> 6

\* the input buffers hold what the wrapper has to pass
InputsWritten(h) ==
    /\ h.offset \in DOMAIN MEMORY_AREAS
    /\ MEMORY_AREAS[h.offset].box = InputBytes(h)
    /\ (h.pattern = "c") =>
          /\ h.offset_data \in DOMAIN MEMORY_AREAS
          /\ MEMORY_AREAS[h.offset_data].box = Encoded[create_arrow_example_data]

NothingRead(h) == h.result_bytes = <<>> /\ h.ptr_buffer = <<>> /\ h.len_buffer = <<>>

\* C12: a call runs Idle, Allocating, Invoking, Decoding, Releasing, Done in
\* this order; every input is allocated and written before the export is
\* invoked, every read of the result lies between the return of the export and
\* the first deallocation, and no step follows Failed.
C12_CallOrder ==
    /\ [](/\ (Phase(host.pc) <= 2) =>
                (host.result_offset = 0 /\ NothingRead(host) /\ host.codes = <<>>)
          /\ (host.pc = "call" /\ host.pattern # "answer") => InputsWritten(host)
          /\ (Phase(host.pc) = 3) => (host.result_offset # 0 /\ host.codes = <<>>)
          /\ (Phase(host.pc) = 4) => (host.result_offset # 0 /\ host.result_bytes # <<>>))
    /\ [][/\ (host.pc \notin {"Idle", "Done"} /\ host'.pc # "Failed")
                => (Phase(host'.pc) >= Phase(host.pc))
          /\ (host.pc \in {"Idle", "Done"}) => (Phase(host'.pc) \in {1, 2, 6})
          /\ (Phase(host.pc) \in 2 .. 4) => (lastCall'.op \notin {"wasm_allocate", "memory.write"})
          /\ (Phase(host.pc) = 4) =>
                (host'.result_bytes = host.result_bytes /\ host'.ptr_buffer = host.ptr_buffer
                    /\ host'.len_buffer = host.len_buffer)
          /\ host.pc # "Failed"]_vars

\* the length-prefixed wrapper is releasing its buffers after the result was read
C12_ReleasingAfterDecoding ==
    /\ host.pattern = "b" /\ host.pc = "deallocate_return_meta"
    /\ Len(host.codes) = 1 /\ host.result_bytes # <<>>

---------------------------------------------------------------------------
(* Properties of the host wrappers on an unhealthy guest (UnhealthySpec) *)

SessionSize(h) == IF h.pattern = "a" THEN 2 ELSE IF h.pattern = "b" THEN 3 ELSE 4
ExpectedValue(h) == IF h.pattern = "c" THEN Encoded[result_batch] ELSE Greeting(h.name)
SomeCodeNonZero(h) == \E i \in 1 .. Len(h.codes) : h.codes[i].code # 0

---------------------------------------------------------------------------
(* Further properties of the allocation table and the adapters (Spec) *)

AdapterOps == {"wasm_memory_c_format_hello_world", "wasm_memory_rust_format_hello_world",
               "wasm_memory_process_data_arrow"}

\* C14: no adapter removes or changes an entry of MEMORY_AREAS: after an
\* adapter call every entry registered before it is registered unchanged, the
\* handle it returns is a newly registered one, and every buffer it allocated
\* is registered.
C14_AdaptersNeverRelease ==
    [][(lastCall'.op \in AdapterOps) =>
          /\ \A h \in DOMAIN MEMORY_AREAS :
                h \in DOMAIN MEMORY_AREAS' /\ MEMORY_AREAS'[h] = MEMORY_AREAS[h]
          /\ (~lastCall'.trap /\ lastCall'.ret # 0) =>
                (lastCall'.ret \in (DOMAIN MEMORY_AREAS') \ (DOMAIN MEMORY_AREAS))
          /\ \A h \in Handles :
                (outstanding'[h] > outstanding[h]) => (h \in DOMAIN MEMORY_AREAS')]_vars

\* the length-prefixed adapter has returned: input, result and metadata buffer
\* are registered
C14_ThreeBuffersRegistered ==
    /\ lastCall.op = "wasm_memory_rust_format_hello_world" /\ lastCall.ret # 0
    /\ lastCall.ptr \in DOMAIN MEMORY_AREAS
    /\ Cardinality(DOMAIN MEMORY_AREAS) = 3

---------------------------------------------------------------------------
(* Properties of the packed result (HostSpec) *)

PackedOps == {"wasm_memory_rust_format_hello_world", "wasm_memory_process_data_arrow"}

\* the 32-bit little-endian word at position k of a byte sequence
Word(b, k) == b[k] + 256 * b[k + 1] + 65536 * b[k + 2] + 16777216 * b[k + 3]

\* C15: on success a pattern-(b)/(c) adapter returns the handle of a registered
\* buffer of two 4-byte words [result_ptr][result_len], little-endian, where
\* result_ptr is registered with size result_len and holds the result; the host
\* decodes exactly this (result_ptr, result_len) from the two words.
C15_PackedMetadata ==
    (lastCall.op \in PackedOps /\ ~lastCall.trap /\ lastCall.ret # 0) =>
        /\ lastCall.ret \in DOMAIN MEMORY_AREAS
        /\ MEMORY_AREAS[lastCall.ret].size = 8
        /\ Len(MEMORY_AREAS[lastCall.ret].box) = 8
        /\ LET result_ptr == Word(MEMORY_AREAS[lastCall.ret].box, 1)
               result_len == Word(MEMORY_AREAS[lastCall.ret].box, 5)
           IN  /\ result_ptr \in DOMAIN MEMORY_AREAS
               /\ result_ptr \notin {lastCall.ret, lastCall.ptr, lastCall.ptr2}
               /\ MEMORY_AREAS[result_ptr].size = result_len
               /\ MEMORY_AREAS[result_ptr].box = ExpectedValue(host)
               /\ (host.pc \in {"read_data", "deallocate_param"}) =>
                     (host.result_ptr = result_ptr /\ host.result_len = result_len)

\* the host has decoded both words of the tabular result
C15_TabularMetadataDecoded ==
    /\ lastCall.op = "wasm_memory_process_data_arrow" /\ lastCall.ret # 0
    /\ host.pc = "read_data" /\ host.result_ptr \in DOMAIN MEMORY_AREAS
    /\ host.result_len = Len(Encoded[result_batch])

\* C16: in patterns (b) and (c) the host reads the word result_ptr and then the
\* word result_len at the returned handle before it reads anything at
\* result_ptr, and its read at result_ptr delivers exactly result_len bytes.
C16_WordsBeforeData ==
    /\ []((host.pattern \in {"b", "c"}) =>
            /\ (host.pc \in {"read_ptr", "read_len"}) => (host.result_bytes = <<>>)
            /\ (host.pc = "read_ptr") => (host.ptr_buffer = <<>> /\ host.len_buffer = <<>>)
            /\ (host.pc = "read_len") => (Len(host.ptr_buffer) = 4 /\ host.len_buffer = <<>>)
            /\ (host.pc = "read_data") =>
                  /\ Len(host.ptr_buffer) = 4 /\ Len(host.len_buffer) = 4
                  /\ host.result_ptr = Word(host.ptr_buffer, 1)
                  /\ host.result_len = Word(host.len_buffer, 1)
                  /\ host.result_bytes = <<>>)
    /\ [][(host.pattern \in {"b", "c"} /\ host'.result_bytes # host.result_bytes
              /\ host'.result_bytes # <<>>)
            => (/\ host.pc = "read_data"
                /\ Len(host'.result_bytes) = host.result_len
                /\ host'.result_bytes = MEMORY_AREAS[host.result_ptr].box)]_vars

\* the tabular result has been read after its two words
C16_TabularDataRead ==
    /\ host.pattern = "c" /\ host.pc = "deallocate_param"
    /\ host.result_len > 0 /\ Len(host.result_bytes) = host.result_len

\* C17: calls are sequential and instance-local: a wrapper starts only when no
\* call is running (the previous one has issued all its deallocations), it
\* starts on an instance with an empty table, and every handle it passes to an
\* adapter, to wasm_deallocate or to a memory write was returned by an allocate
\* call of this instance.
C17_SequentialInstanceLocal ==
    /\ [][(lastCall'.op = "none" /\ host' # host) =>
              /\ host.pc \in {"Idle", "Done"}
              /\ (host.pc = "Done" /\ host.pattern \in {"a", "b", "c"}) =>
                    (Len(host.codes) = SessionSize(host))
              /\ MEMORY_AREAS' = EmptyAreas
              /\ returned' = {}]_vars
    /\ []((lastCall.op \in AdapterOps \cup {"wasm_deallocate", "memory.write"}) =>
              /\ lastCall.ptr \in returned
              /\ (lastCall.op = "wasm_memory_process_data_arrow") => (lastCall.ptr2 \in returned))
    /\ [](DOMAIN MEMORY_AREAS \subseteq returned)

\* the tabular wrapper releases buffers that its own instance returned
C17_CallOnOwnInstance ==
    /\ host.pattern = "c" /\ host.pc = "deallocate_data"
    /\ lastCall.op = "wasm_deallocate" /\ lastCall.ptr \in returned
    /\ Cardinality(returned) = 4

---------------------------------------------------------------------------
(* Termination of the host wrappers (HostSpecFair) *)

Running(h) == h.pc \notin {"Idle", "Done", "Failed"}

\* C18: every wrapper call that has started eventually ends Done or Failed; in
\* particular the byte-by-byte scan of pattern (a) ends.
C18_CallTerminates == Running(host) ~> (host.pc \in {"Done", "Failed"})

\* the scan of pattern (a) is under way
C18_ScanUnderWay ==
    host.pattern = "a" /\ host.pc = "scan" /\ Len(host.result_bytes) > 13

---------------------------------------------------------------------------
(* Properties of the nul-terminated adapter and of wasm_allocate (Spec) *)

\* the greeting fits into the heap next to the registered buffers
RoomFor(n) == BoxAddrs(MEMORY_AREAS, n) # {}

\* C19: wasm_memory_c_format_hello_world returns 0 and allocates nothing when
\* its handle is unregistered or the nul-terminated string at the handle,
\* terminator included, is not as long as the recorded size; otherwise it
\* returns a newly registered handle, different from the input, that holds the
\* nul-terminated greeting. (A string without terminator inside its buffer is
\* longer than the recorded size; the fatal conditions of running out of
\* memory are left aside.)
C19_CFormatOutcome ==
    [][(lastCall'.op = "wasm_memory_c_format_hello_world") =>
          IF lastCall'.ptr \notin DOMAIN MEMORY_AREAS
          THEN lastCall'.ret = 0 /\ ~lastCall'.trap /\ MEMORY_AREAS' = MEMORY_AREAS
          ELSE LET box == MEMORY_AREAS[lastCall'.ptr].box
                   size == MEMORY_AREAS[lastCall'.ptr].size
               IN  IF ~HasNul(box)
                   THEN (~lastCall'.trap => lastCall'.ret = 0) /\ MEMORY_AREAS' = MEMORY_AREAS
                   ELSE IF FirstNul(box) # size
                   THEN lastCall'.ret = 0 /\ ~lastCall'.trap /\ MEMORY_AREAS' = MEMORY_AREAS
                   ELSE RoomFor(Len(Greeting(SubSeq(box, 1, size - 1))) + 1) =>
                          /\ ~lastCall'.trap
                          /\ lastCall'.ret # 0 /\ lastCall'.ret # lastCall'.ptr
                          /\ lastCall'.ret \in (DOMAIN MEMORY_AREAS') \ (DOMAIN MEMORY_AREAS)
                          /\ MEMORY_AREAS'[lastCall'.ret].box
                                = Greeting(SubSeq(box, 1, size - 1)) \o <<0>>]_vars

\* C20: for every size, wasm_allocate(size) registers the handle it returns
\* with exactly this size and size zero bytes; validate_pointer on a registered
\* handle returns the recorded size, which stays the same until a successful
\* wasm_deallocate of the handle removes the entry.
C20_AllocateRegistersSize ==
    /\ []((lastCall.op = "wasm_allocate" /\ ~lastCall.trap) =>
              /\ lastCall.ret \in DOMAIN MEMORY_AREAS
              /\ MEMORY_AREAS[lastCall.ret].size = lastCall.len
              /\ MEMORY_AREAS[lastCall.ret].box = [i \in 1 .. lastCall.len |-> 0])
    /\ []((lastCall.op = "validate_pointer" /\ lastCall.ptr \in DOMAIN MEMORY_AREAS) =>
              /\ lastCall.ret = MEMORY_AREAS[lastCall.ptr].size
              /\ lastCall.ret = Len(MEMORY_AREAS[lastCall.ptr].box))
    /\ [][\A h \in DOMAIN MEMORY_AREAS :
              IF h \in DOMAIN MEMORY_AREAS'
              THEN MEMORY_AREAS'[h].size = MEMORY_AREAS[h].size
              ELSE lastCall'.op = "wasm_deallocate" /\ lastCall'.ptr = h /\ lastCall'.ret = 0]_vars

\* validate_pointer has returned the size of a buffer the host has written since
\* its allocation
C20_WrittenBufferValidated ==
    /\ lastCall.op = "validate_pointer" /\ lastCall.ptr \in DOMAIN MEMORY_AREAS
    /\ lastCall.ret > 0
    /\ MEMORY_AREAS[lastCall.ptr].box[1] # 0

---------------------------------------------------------------------------
(* Frame conditions of the exports (Spec) *)

\* C21: wasm_deallocate(h) on an unregistered h returns -1 and leaves
\* MEMORY_AREAS unchanged; on a registered h it returns 0 and removes exactly
\* the entry of h, every other entry staying as it was.
C21_DeallocateFrame ==
    [][(lastCall'.op = "wasm_deallocate") =>
          IF lastCall'.ptr \notin DOMAIN MEMORY_AREAS
          THEN lastCall'.ret = -1 /\ MEMORY_AREAS' = MEMORY_AREAS
          ELSE /\ lastCall'.ret = 0
               /\ DOMAIN MEMORY_AREAS' = (DOMAIN MEMORY_AREAS) \ {lastCall'.ptr}
               /\ \A h \in DOMAIN MEMORY_AREAS' : MEMORY_AREAS'[h] = MEMORY_AREAS[h]]_vars

\* one of several registered buffers has been deallocated
C21_OneOfSeveralRemoved ==
    /\ lastCall.op = "wasm_deallocate" /\ lastCall.ret = 0
    /\ lastCall.ptr \notin DOMAIN MEMORY_AREAS
    /\ Cardinality(DOMAIN MEMORY_AREAS) >= 2

---------------------------------------------------------------------------
(* The tabular call of the host (HostSpec) *)

\* the batches of the scenario, written out
ReferenceCommand ==
    [schema |-> <<[name |-> "command", type |-> "Utf8"],
                  [name |-> "config", type |-> "Struct{filename:Utf8}"]>>,
     batches |-> << << <<"test", "test.txt">> >> >>]
ReferenceData ==
    [schema |-> <<[name |-> "id", type |-> "UInt64"], [name |-> "content", type |-> "Utf8"],
                  [name |-> "title", type |-> "Utf8"],
                  [name |-> "date", type |-> "Timestamp(Second,+00:00)"],
                  [name |-> "score", type |-> "Float64"]>>,
     batches |-> << << <<"1", "this is a test", "test", "2022-01-01T12:00:00Z", "1.123456">> >> >>]
ReferenceResult ==
    [schema |-> <<[name |-> "id", type |-> "UInt64"], [name |-> "content", type |-> "Utf8"]>>,
     batches |-> << << <<"1", "this is a test2">> >> >>]

C23_AnswerIs42 ==
    [][(lastCall'.op = "answer") =>
          /\ lastCall'.ret = 42 /\ ~lastCall'.trap
          /\ lastCall'.reads = {}
          /\ MEMORY_AREAS' = MEMORY_AREAS]_vars

\* answer was called on an instance that holds buffers and has released some
C23_AnswerWithBuffers ==
    /\ lastCall.op = "answer"
    /\ MEMORY_AREAS # EmptyAreas
    /\ everFreed # {}

---------------------------------------------------------------------------
(* Reads of the adapters (Spec) *)

\* the bytes of a handle's buffer as the table records it
RegisteredBytes(ptr) == AddrRange(ptr, RecordedSize(ptr))

\* C24: every read of an adapter lies inside a buffer registered in the
\* allocation table: nothing is read at an unregistered handle and nothing
\* past the recorded size of a registered one, the scan for the terminator
\* of pattern (a) included.
C24_ReadsInsideRegisteredBuffers ==
    (lastCall.op \in AdapterOps) =>
        lastCall.reads \subseteq (RegisteredBytes(lastCall.ptr) \cup RegisteredBytes(lastCall.ptr2))

---------------------------------------------------------------------------
(* The sentinel 0 (Spec) *)

\* the input of an adapter call that the adapter's pointer and length tests refuse
InputRefused(call) ==
    CASE call.op = "wasm_memory_c_format_hello_world" ->
            \/ call.ptr \notin DOMAIN MEMORY_AREAS
            \/ RecordedSize(call.ptr) = 0
            \/ ~HasNul(MEMORY_AREAS[call.ptr].box)
            \/ FirstNul(MEMORY_AREAS[call.ptr].box) # RecordedSize(call.ptr)
      [] call.op = "wasm_memory_rust_format_hello_world" ->
            RecordedSize(call.ptr) = 0 \/ Mismatch(call.ptr, call.len)
      [] call.op = "wasm_memory_process_data_arrow" ->
            \/ RecordedSize(call.ptr) = 0 \/ Mismatch(call.ptr, call.len)
            \/ RecordedSize(call.ptr2) = 0 \/ Mismatch(call.ptr2, call.len2)
      [] OTHER -> FALSE

\* C25: 0 is never a handle: no allocate call registers or returns 0, an
\* adapter that produced a result returns a registered non-zero handle, and an
\* adapter returns 0 only for an input it refused, producing nothing.
C25_ZeroIsNeverAHandle ==
    /\ [](0 \notin DOMAIN MEMORY_AREAS /\ 0 \notin returned)
    /\ [][(lastCall'.op = "wasm_allocate" /\ ~lastCall'.trap) =>
             (lastCall'.ret # 0 /\ lastCall'.ret \in DOMAIN MEMORY_AREAS')]_vars
    /\ [][(lastCall'.op \in AdapterOps /\ ~lastCall'.trap) =>
             IF lastCall'.ret = 0
             THEN /\ InputRefused(lastCall')
                  /\ MEMORY_AREAS' = MEMORY_AREAS
                  /\ returned' = returned
             ELSE /\ ~InputRefused(lastCall')
                  /\ lastCall'.ret \in DOMAIN MEMORY_AREAS'
                  /\ lastCall'.ret \in returned']_vars

\* an adapter has refused a registered input while the heap's first granule is in use
C25_RefusedWithFirstGranuleInUse ==
    /\ lastCall.op \in AdapterOps /\ lastCall.ret = 0 /\ ~lastCall.trap
    /\ lastCall.ptr \in DOMAIN MEMORY_AREAS
    /\ SlotAddr(0) \in DOMAIN MEMORY_AREAS

---------------------------------------------------------------------------
(* Order of release and access in a wrapper (HostSpec) *)

\* statements of a wrapper that write or read guest memory
AccessPcs == {"write", "write_data", "scan", "read_ptr", "read_len", "read_data"}
\* handles the wrapper has passed to wasm_deallocate in the current call
ReleasedHandles(h) == {h.codes[i].ptr : i \in 1 .. Len(h.codes)}

\* C26: within one wrapper call no write or read of guest memory follows a
\* wasm_deallocate of the call, the conversion of the result touches no guest
\* memory, and no handle is passed to wasm_deallocate twice: the handles
\* released are pairwise distinct.
C26_NoAccessAfterRelease ==
    /\ []((host.pc \in AccessPcs) => (ReleasedHandles(host) = {}))
    /\ [](\A i, j \in 1 .. Len(host.codes) : (i # j) => (host.codes[i].ptr # host.codes[j].ptr))
    /\ [][(host.pc \in ReleasingPcs /\ lastCall'.op = "wasm_deallocate") =>
             /\ lastCall'.ptr \notin ReleasedHandles(host)
             /\ ReleasedHandles(host') = ReleasedHandles(host) \cup {lastCall'.ptr}]_vars
    /\ [][(host.pc = "convert") => (lastCall' = lastCall /\ MEMORY_AREAS' = MEMORY_AREAS)]_vars

\* the tabular wrapper has released its four buffers and is about to convert
C26_FourReleasedBeforeConversion ==
    /\ host.pattern = "c" /\ host.pc = "convert"
    /\ Cardinality(ReleasedHandles(host)) = 4

---------------------------------------------------------------------------
(* Order of the deallocations (HostSpec) *)

\* the orders in which the handles of S can be released
Orders(S) == {o \in [1 .. Cardinality(S) -> S] : \A i, j \in DOMAIN o : (i # j) => (o[i] # o[j])}

\* wasm_deallocate called for the handles of order, one after the other:
\* the table left and the codes returned
RECURSIVE ReleaseAll(_, _)
ReleaseAll(areas, order) ==
    IF order = <<>> THEN [areas |-> areas, codes |-> <<>>]
    ELSE LET rest == ReleaseAll(RemoveArea(areas, Head(order)), Tail(order))
         IN  [areas |-> rest.areas,
              codes |-> <<DeallocateCode(areas, Head(order))>> \o rest.codes]

\* C27: releasing is independent of the order: for every set of distinct
\* registered handles, deallocating them in any order returns 0 every time and
\* leaves the table without exactly these entries; when a wrapper starts
\* releasing, its buffers are such a set and any order empties the table; and
\* wasm_deallocate of one handle leaves every other entry registered with its size.
C27_ReleaseOrderIndependent ==
    /\ [](\A S \in SUBSET (DOMAIN MEMORY_AREAS) : \A o \in Orders(S) :
            LET r == ReleaseAll(MEMORY_AREAS, o)
            IN  /\ \A i \in 1 .. Len(r.codes) : r.codes[i] = Success
                /\ r.areas = [h \in (DOMAIN MEMORY_AREAS) \ S |-> MEMORY_AREAS[h]])
    /\ []((host.pc = "deallocate_param") =>
            /\ SessionBuffers(host) = DOMAIN MEMORY_AREAS
            /\ \A o \in Orders(SessionBuffers(host)) :
                  ReleaseAll(MEMORY_AREAS, o).areas = EmptyAreas)
    /\ [][(lastCall'.op = "wasm_deallocate") =>
             \A h \in (DOMAIN MEMORY_AREAS) \ {lastCall'.ptr} :
                 /\ h \in DOMAIN MEMORY_AREAS'
                 /\ MEMORY_AREAS'[h].size = MEMORY_AREAS[h].size]_vars

\* the tabular wrapper has released two of its four buffers
C27_HalfReleased ==
    /\ host.pattern = "c" /\ host.pc = "deallocate_return_meta"
    /\ lastCall.op = "wasm_deallocate" /\ lastCall.ret = Success
    /\ Cardinality(DOMAIN MEMORY_AREAS) = 2

---------------------------------------------------------------------------
(* Frame of a refused adapter call (Spec) *)

\* C28: an adapter call that returns 0 because its pointer or length test
\* failed leaves the allocation table exactly as it was: no buffer is
\* registered by it and none is removed or changed.
C28_RefusalLeavesTable ==
    [][(lastCall'.op \in AdapterOps /\ lastCall'.ret = 0 /\ ~lastCall'.trap) =>
          /\ InputRefused(lastCall')
          /\ MEMORY_AREAS' = MEMORY_AREAS
          /\ returned' = returned
          /\ outstanding' = outstanding
          /\ stale' = stale /\ everFreed' = everFreed]_vars

\* wasm_memory_rust_format_hello_world has refused a registered buffer for its
\* declared length while another buffer is registered
C28_MismatchRefusedAmongBuffers ==
    /\ lastCall.op = "wasm_memory_rust_format_hello_world"
    /\ lastCall.ret = 0 /\ ~lastCall.trap
    /\ lastCall.ptr \in DOMAIN MEMORY_AREAS
    /\ RecordedSize(lastCall.ptr) \notin {0, lastCall.len}
    /\ Cardinality(DOMAIN MEMORY_AREAS) >= 2

---------------------------------------------------------------------------
(* Sizes the wrappers allocate, write and declare (HostSpec) *)

\* C29: in every wrapper the bytes written into an input buffer are as many
\* as the size passed to the wasm_allocate that returned the buffer, so the
\* write fills exactly the registered buffer and touches no other; the length
\* declared to an adapter of pattern (b) or (c) is that size again, so an
\* adapter refuses a call of a wrapper only for a recorded size of 0, never
\* for a length that differs from the recorded size.
C29_HostSizesAgree ==
    /\ [][(lastCall'.op = "memory.write") =>
             /\ lastCall.op = "wasm_allocate" /\ ~lastCall.trap
             /\ lastCall'.ptr = lastCall.ret
             /\ lastCall'.len = lastCall.len
             /\ lastCall'.ptr \in DOMAIN MEMORY_AREAS
             /\ lastCall'.len = MEMORY_AREAS[lastCall'.ptr].size
             /\ DOMAIN MEMORY_AREAS' = DOMAIN MEMORY_AREAS
             /\ Len(MEMORY_AREAS'[lastCall'.ptr].box) = lastCall'.len
             /\ \A h \in (DOMAIN MEMORY_AREAS) \ {lastCall'.ptr} :
                   MEMORY_AREAS'[h] = MEMORY_AREAS[h]]_vars
    /\ [][(lastCall'.op \in PackedOps) =>
             /\ ~Mismatch(lastCall'.ptr, lastCall'.len)
             /\ Len(MEMORY_AREAS[lastCall'.ptr].box) = lastCall'.len
             /\ (lastCall'.op = "wasm_memory_process_data_arrow") =>
                   /\ ~Mismatch(lastCall'.ptr2, lastCall'.len2)
                   /\ Len(MEMORY_AREAS[lastCall'.ptr2].box) = lastCall'.len2
             /\ (lastCall'.ret = 0 /\ ~lastCall'.trap) => (lastCall'.len = 0)]_vars

\* the wrapper of pattern (b) has passed a name of MaxLen bytes and its length
\* while the adapter's result is registered
C29_LongestNameDeclared ==
    /\ host.pattern = "b" /\ Len(host.name) = MaxLen
    /\ lastCall.op = "wasm_memory_rust_format_hello_world"
    /\ lastCall.len = MaxLen /\ lastCall.ret # 0

---------------------------------------------------------------------------
(* Entries of MEMORY_AREAS (Spec) *)

\* C30: every entry of MEMORY_AREAS records as size the byte length of the
\* buffer stored with it, and its key is the address of that buffer: the
\* dangling address for an empty buffer and for no other, a heap address
\* otherwise, and the bytes of two entries never overlap.
C30_EntryMatchesBuffer ==
    /\ \A h \in DOMAIN MEMORY_AREAS :
          /\ MEMORY_AREAS[h].size = Len(MEMORY_AREAS[h].box)
          /\ (MEMORY_AREAS[h].size = 0) <=> (h = Dangling)
          /\ (MEMORY_AREAS[h].size > 0) =>
                (h \in HeapAddrs /\ h \in BoxAddrs(RemoveArea(MEMORY_AREAS, h), MEMORY_AREAS[h].size))
    /\ \A h1, h2 \in DOMAIN MEMORY_AREAS :
          (h1 # h2) => (AddrRange(h1, Len(MEMORY_AREAS[h1].box))
                           \cap AddrRange(h2, Len(MEMORY_AREAS[h2].box)) = {})
    /\ (lastCall.op \in AdapterOps \cup {"wasm_allocate"} /\ ~lastCall.trap /\ lastCall.ret # 0) =>
          (/\ lastCall.ret \in DOMAIN MEMORY_AREAS
           /\ MEMORY_AREAS[lastCall.ret].size = Len(MEMORY_AREAS[lastCall.ret].box))

\* pattern (a) has registered a greeting while an empty buffer is registered too
C30_GreetingBesideEmptyBuffer ==
    /\ lastCall.op = "wasm_memory_c_format_hello_world" /\ lastCall.ret # 0 /\ ~lastCall.trap
    /\ Dangling \in DOMAIN MEMORY_AREAS
    /\ lastCall.ret \in DOMAIN MEMORY_AREAS

====
